---------------------------- MODULE Spec2Model ----------------------------
(***************************************************************************)
(* A model of buoy.py: one run that fetches the NDBC latest-observations   *)
(* table, normalises each row into a fixed-width weather record            *)
(* (get_latest_buoy_data) and relays every record to APRS-IS               *)
(* (send_to_aprs, called from the main block).                             *)
(*                                                                         *)
(* Text is kept as text: feed rows, tokens and rendered fields are TLA+    *)
(* strings, split, parsed and formatted character by character.  Python    *)
(* floats are modelled in fixed point: a parsed token is an integer count  *)
(* of tenths (weather columns) or thousandths (LAT/LON), which is exact    *)
(* for the decimal numerals the feed carries.                              *)
(***************************************************************************)
EXTENDS Integers, Sequences, FiniteSets, TLC

(***************************************************************************)
(* Bounds of the model.                                                    *)
(***************************************************************************)
\* lines in the fetched text, the two header lines included
MaxLines == 4
\* seconds the wall clock may advance while the rows are processed
MaxSkew == 1

(***************************************************************************)
(* Characters, numerals and Python's formatting primitives.                *)
(***************************************************************************)
Digits == "0123456789"

Chr(s, i) == SubSeq(s, i, i)

IsDigit(c) == \E d \in 1..10 : Chr(Digits, d) = c

DigitVal(c) == (CHOOSE d \in 1..10 : Chr(Digits, d) = c) - 1

IsDigits(s) == Len(s) > 0 /\ \A i \in 1..Len(s) : IsDigit(Chr(s, i))

RECURSIVE NatVal(_)
NatVal(s) ==
    IF Len(s) = 0 THEN 0
    ELSE 10 * NatVal(SubSeq(s, 1, Len(s) - 1)) + DigitVal(Chr(s, Len(s)))

RECURSIVE Dec(_)
Dec(n) == IF n < 10 THEN Chr(Digits, n + 1)
          ELSE Dec(n \div 10) \o Chr(Digits, (n % 10) + 1)

RECURSIVE ZeroFill(_, _)
ZeroFill(s, w) == IF Len(s) >= w THEN s ELSE ZeroFill("0" \o s, w)

\* f"{n:0wd}": the sign counts towards the width, the digits are never cut
FmtD(n, w) == IF n < 0 THEN "-" \o ZeroFill(Dec(-n), w - 1)
              ELSE ZeroFill(Dec(n), w)

\* str.ljust(w): pads on the right, never truncates
RECURSIVE ljust(_, _)
ljust(s, w) == IF Len(s) >= w THEN s ELSE ljust(s \o " ", w)

Abs(n) == IF n < 0 THEN -n ELSE n

\* int(x) of a quotient: truncation towards zero
TruncDiv(a, b) == IF a >= 0 THEN a \div b ELSE -((-a) \div b)

\* round(a / b) with ties rounded up
RoundHalfUpDiv(a, b) == (2 * a + b) \div (2 * b)

\* round(a / b) as Python 3 rounds: to nearest, ties to the even integer
RoundDiv(a, b) ==
    LET q == a \div b
        r == a % b
    IN  IF 2 * r > b THEN q + 1
        ELSE IF 2 * r < b THEN q
        ELSE IF q % 2 = 0 THEN q ELSE q + 1

(***************************************************************************)
(* str.split(), int(), float().  A conversion that raises ValueError is    *)
(* reported by the Can... predicate being false.                           *)
(***************************************************************************)
\* the maximal runs of non-blank characters of s that start at position i
\* or later, in order
RECURSIVE WordsFrom(_, _)
WordsFrom(s, i) ==
    IF \E q \in i..Len(s) : Chr(s, q) # " "
    THEN LET first == CHOOSE q \in i..Len(s) :
                         /\ Chr(s, q) # " "
                         /\ \A b \in i..(q - 1) : Chr(s, b) = " "
             last  == CHOOSE q \in first..Len(s) :
                         /\ \A c \in first..q : Chr(s, c) # " "
                         /\ (q = Len(s) \/ Chr(s, q + 1) = " ")
         IN  <<SubSeq(s, first, last)>> \o WordsFrom(s, last + 1)
    ELSE <<>>

\* s.split()
split(s) == WordsFrom(s, 1)

HasSign(s) == Len(s) > 0 /\ Chr(s, 1) \in {"-", "+"}

Unsigned(s) == IF HasSign(s) THEN SubSeq(s, 2, Len(s)) ELSE s

Signed(s, n) == IF Len(s) > 0 /\ Chr(s, 1) = "-" THEN -n ELSE n

CanInt(s) == IsDigits(Unsigned(s))

IntOf(s) == Signed(s, NatVal(Unsigned(s)))

\* position of the decimal point in s, 0 when there is none
DotAt(s) == IF \E i \in 1..Len(s) : Chr(s, i) = "."
            THEN CHOOSE i \in 1..Len(s) : Chr(s, i) = "."
            ELSE 0

IntPart(s) == IF DotAt(s) = 0 THEN s ELSE SubSeq(s, 1, DotAt(s) - 1)

FracPart(s) == IF DotAt(s) = 0 THEN "" ELSE SubSeq(s, DotAt(s) + 1, Len(s))

\* the numerals of the feed are plain decimals: a sign, digits, a point;
\* exponents, "inf", "nan" and digit separators do not occur in it
CanFloat(s) ==
    LET u == Unsigned(s)
    IN  /\ Len(IntPart(u)) + Len(FracPart(u)) > 0
        /\ \A i \in 1..Len(IntPart(u)) : IsDigit(Chr(IntPart(u), i))
        /\ \A i \in 1..Len(FracPart(u)) : IsDigit(Chr(FracPart(u), i))

RECURSIVE Pow10(_)
Pow10(d) == IF d = 0 THEN 1 ELSE 10 * Pow10(d - 1)

RECURSIVE ZeroTail(_, _)
ZeroTail(s, w) == IF Len(s) >= w THEN SubSeq(s, 1, w) ELSE ZeroTail(s \o "0", w)

\* float(s) in units of 10^-d, for numerals of at most d fractional digits
FloatOf(s, d) ==
    LET u == Unsigned(s)
    IN  Signed(s, NatVal(IntPart(u)) * Pow10(d) + NatVal(ZeroTail(FracPart(u), d)))


(***************************************************************************)
(* datetime: a parsed observation time is a record of its calendar         *)
(* fields; the wall clock is a count of seconds since 2026-01-01T00:00:00  *)
(* UTC.  Timestamps of the years 2025 to 2027 (none a leap year) are       *)
(* placed on that axis.                                                    *)
(***************************************************************************)
IsLeap(y) == (y % 4 = 0 /\ y % 100 # 0) \/ y % 400 = 0

DaysIn(m, y) == IF m = 2 THEN (IF IsLeap(y) THEN 29 ELSE 28)
                ELSE IF m \in {4, 6, 9, 11} THEN 30 ELSE 31

RECURSIVE DaysBefore(_, _)
DaysBefore(m, y) == IF m = 1 THEN 0 ELSE DaysBefore(m - 1, y) + DaysIn(m - 1, y)

\* datetime.strptime(f"{year} {month} {day} {hour} {minute}", "%Y %m %d %H %M")
\* accepts: %Y four digits, the other directives one or two digits in range,
\* and a day that exists in the month
CanStrptime(year, month, day, hour, minute) ==
    /\ IsDigits(year) /\ Len(year) = 4 /\ NatVal(year) >= 1
    /\ IsDigits(month) /\ Len(month) <= 2 /\ NatVal(month) \in 1..12
    /\ IsDigits(day) /\ Len(day) <= 2
    /\ NatVal(day) \in 1..DaysIn(NatVal(month), NatVal(year))
    /\ IsDigits(hour) /\ Len(hour) <= 2 /\ NatVal(hour) \in 0..23
    /\ IsDigits(minute) /\ Len(minute) <= 2 /\ NatVal(minute) \in 0..59

strptime(year, month, day, hour, minute) ==
    [year |-> NatVal(year), month |-> NatVal(month), day |-> NatVal(day),
     hour |-> NatVal(hour), minute |-> NatVal(minute)]

\* seconds from 2026-01-01T00:00:00 to the datetime dt
Seconds(dt) ==
    ((((dt.year - 2026) * 365 + DaysBefore(dt.month, dt.year) + (dt.day - 1)) * 24
       + dt.hour) * 60 + dt.minute) * 60

\* timedelta(hours=0.5), in seconds
MaxAge == 30 * 60

\* a cutoff applied in both directions of time
IsStaleEitherWay(clock, obs_time) == Abs(clock - Seconds(obs_time)) > MaxAge

\* a cutoff that also drops a row of exactly the maximal age
IsStaleAtLimit(clock, obs_time) == clock - Seconds(obs_time) >= MaxAge

\* datetime.utcnow() - obs_time > timedelta(hours=0.5)
IsStale(clock, obs_time) == clock - Seconds(obs_time) > MaxAge

\* obs_time.strftime("%d%H%M")
strftime(dt) == FmtD(dt.day, 2) \o FmtD(dt.hour, 2) \o FmtD(dt.minute, 2)

(***************************************************************************)
(* The body of the per-line loop of get_latest_buoy_data.                  *)
(***************************************************************************)
safe_value(value, default) == IF value # "MM" THEN value ELSE default

\* the tokens the loop body names; fields is 1-based here, 0-based in Python
F_id(fields) == fields[1]
F_lat(fields) == fields[2]
F_lon(fields) == fields[3]
F_wind_dir(fields) == fields[9]
F_wind_speed(fields) == fields[10]
F_wind_gust(fields) == fields[11]
F_pressure(fields) == fields[16]
F_temp(fields) == fields[18]

ObsTime(fields) == strptime(fields[4], fields[5], fields[6], fields[7], fields[8])

\* int(round(float(temp) * 9/5 + 32)), temp in tenths of a degree Celsius
CtoF(t10) == RoundDiv(9 * t10 + 1600, 50)

\* f"{temp:03d}" if temp >= 0 else f"-{abs(temp):02d}"
FmtTemp(f) == IF f >= 0 THEN FmtD(f, 3) ELSE "-" \o FmtD(Abs(f), 2)

ConvTemp(tok) ==
    LET temp == safe_value(tok, "...")
    IN  IF temp # "..." THEN FmtTemp(CtoF(FloatOf(temp, 1))) ELSE temp

\* f"{int(float(safe_value(w, '0')) * 2.23694):03d}", w in tenths of m/s
ConvWind(tok) ==
    LET w == safe_value(tok, "...")
    IN  IF w # "..."
        THEN FmtD(TruncDiv(FloatOf(safe_value(w, "0"), 1) * 223694, 1000000), 3)
        ELSE w

\* f"{int(safe_value(wind_dir, '0')):03d}"
ConvWindDir(tok) ==
    LET d == safe_value(tok, "...")
    IN  IF d # "..." THEN FmtD(IntOf(safe_value(d, "0")), 3) ELSE d

\* f"{int(float(pressure) * 10):05d}" if pressure != "..." else ".....",
\* a ValueError giving "....." too; the raw token is tested, so "MM" reaches
\* float() and is caught there
ConvPressure(tok) ==
    IF tok # "..."
    THEN IF CanFloat(tok) THEN FmtD(TruncDiv(FloatOf(tok, 1) * 10, 10), 5)
         ELSE "....."
    ELSE "....."

\* a conversion outside the try blocks raises ValueError (lines 58-71, 80, 81)
Raises(fields) ==
    LET temp == safe_value(F_temp(fields), "...")
        ws   == safe_value(F_wind_speed(fields), "...")
        wg   == safe_value(F_wind_gust(fields), "...")
        wd   == safe_value(F_wind_dir(fields), "...")
    IN  \/ temp # "..." /\ ~CanFloat(temp)
        \/ ws # "..." /\ ~CanFloat(ws)
        \/ wg # "..." /\ ~CanFloat(wg)
        \/ wd # "..." /\ ~CanInt(wd)
        \/ ~CanFloat(F_lat(fields))
        \/ ~CanFloat(F_lon(fields))

\* the dictionary appended to buoy_data_list; latitude and longitude are
\* floats, kept in thousandths of a degree
Observation(fields) ==
    [id             |-> ljust(F_id(fields), 9),
     latitude       |-> FloatOf(F_lat(fields), 3),
     longitude      |-> FloatOf(F_lon(fields), 3),
     wind_speed     |-> ConvWind(F_wind_speed(fields)),
     wind_gust      |-> ConvWind(F_wind_gust(fields)),
     wind_direction |-> ConvWindDir(F_wind_dir(fields)),
     temperature    |-> ConvTemp(F_temp(fields)),
     pressure       |-> ConvPressure(F_pressure(fields)),
     obs_time       |-> strftime(ObsTime(fields))]

\* what one iteration does with its line, the clock reading being clock:
\* "short", "few", "badtime", "stale" (the four continue statements),
\* "raised" (an uncaught ValueError) or "kept" (the append)
Disposition(ln, clock) ==
    LET fields == split(ln)
    IN  IF Len(ln) < 70 THEN "short"
        ELSE IF Len(fields) < 18 THEN "few"
        ELSE IF ~CanStrptime(fields[4], fields[5], fields[6], fields[7], fields[8])
             THEN "badtime"
        ELSE IF IsStale(clock, ObsTime(fields)) THEN "stale"
        ELSE IF Raises(fields) THEN "raised"
        ELSE "kept"

\* an insertion at the head of the list
RetainFirst(list, rec) == <<rec>> \o list

\* buoy_data_list.append(...)
Retain(list, rec) == Append(list, rec)

(***************************************************************************)
(* The feed.  A row is a line of the table: 22 whitespace-separated        *)
(* columns (#STN LAT LON YYYY MM DD hh mm WDIR WSPD GST WVHT DPD APD MWD   *)
(* PRES PTDY ATMP WTMP DEWP VIS TIDE).                                     *)
(***************************************************************************)
RECURSIVE Join(_)
Join(toks) == IF Len(toks) = 0 THEN ""
              ELSE IF Len(toks) = 1 THEN toks[1]
              ELSE toks[1] \o "  " \o Join(Tail(toks))

Columns(stn, lat, lon, stamp, wdir, wspd, gst, pres, atmp) ==
    <<stn, lat, lon>> \o stamp \o <<wdir, wspd, gst, "MM", "MM", "MM", "MM",
      pres, "MM", atmp, "MM", "MM", "MM", "MM">>

Row(stn, lat, lon, stamp, wdir, wspd, gst, pres, atmp) ==
    Join(Columns(stn, lat, lon, stamp, wdir, wspd, gst, pres, atmp))

\* the clock reads 2026-11-02 00:10:00 UTC when the fetch returns
ClockAtFetch == (DaysBefore(11, 2026) + 1) * 86400 + 10 * 60

T0000 == <<"2026", "11", "02", "00", "00">>   \* 10 minutes old
T2341 == <<"2026", "11", "01", "23", "41">>   \* 29 minutes old
T2340 == <<"2026", "11", "01", "23", "40">>   \* exactly 30 minutes old
T2339 == <<"2026", "11", "01", "23", "39">>   \* 31 minutes old
T0040 == <<"2026", "11", "02", "00", "40">>   \* 30 minutes ahead
T0215 == <<"2026", "11", "02", "02", "15">>   \* over two hours ahead

GoodRow     == Row("46001", "34.500", "-122.250", T0000, "270", "5.0", "7.0", "1013.2", "0")
LimitRow    == Row("46002", "-33.917", "151.183", T2340, "MM", "3.1", "MM", "998.7", "-10")
AllMMRow    == Row("46003", "0.000", "-0.083", T2341, "MM", "MM", "MM", "MM", "MM")
AheadRow    == Row("46004", "59.999", "179.999", T0040, "90", "MM", "MM", "MM", "-28")
FarAheadRow == Row("46005", "7.050", "-7.050", T0215, "5", "0.4", "12.9", "MM", "2.5")
LongIdRow   == Row("STATION0012", "34.500", "-122.250", T0000, "270", "5.0", "7.0", "1013.2", "10.0")
ColdRow     == Row("46007", "-89.100", "8.995", T0000, "MM", "MM", "MM", "10000.0", "-75")
GaleRow     == Row("46008", "34.500", "-122.250", T0000, "MM", "450.0", "-1.0", "MM", "540")
BadTempRow  == Row("46011", "34.500", "-122.250", T0000, "270", "5.0", "7.0", "1013.2", "N/A")
BadDirRow   == Row("46012", "34.500", "-122.250", T0000, "27.5", "5.0", "7.0", "1013.2", "0")
BadLatRow   == Row("46013", "MM", "-122.250", T0000, "270", "5.0", "7.0", "1013.2", "0")
StaleRow    == Row("46014", "34.500", "-122.250", T2339, "270", "5.0", "7.0", "1013.2", "0")
BadMonthRow == Row("46015", "34.500", "-122.250", <<"2026", "13", "01", "00", "00">>,
                   "270", "5.0", "7.0", "1013.2", "0")
BadDayRow   == Row("46016", "34.500", "-122.250", <<"2026", "11", "31", "00", "00">>,
                   "270", "5.0", "7.0", "1013.2", "0")
\* a row cut off after 69 characters
ShortRow    == SubSeq(GoodRow, 1, 69)
\* a row of 17 columns, still 70 characters or more
FewRow      == Join(SubSeq(Columns("46017", "34.500", "-122.250", T0000, "270", "5.0",
                                   "7.0", "1013.2", "0"), 1, 17))

FeedRows ==
    {GoodRow, LimitRow, AllMMRow, AheadRow, FarAheadRow, LongIdRow, ColdRow,
     GaleRow, BadTempRow, BadDirRow, BadLatRow, StaleRow, BadMonthRow,
     BadDayRow, ShortRow, FewRow}

(***************************************************************************)
(* send_to_aprs: position rendering and the message.                       *)
(***************************************************************************)
CALLSIGN == "CALLSIGN"
PASSCODE == "PASSCODE"

\* f"{minutes:05.2f}", minutes = (abs(value) - degrees) * 60 with value in
\* thousandths of a degree: 6 hundredths of a minute per thousandth
FmtMinutes(frac) ==
    LET h == frac * 6
    IN  FmtD(h \div 100, 2) \o "." \o FmtD(h % 100, 2)

\* a rendering that gives the minutes of a longitude a third integer digit
decimal_to_dmd_wide(value, is_latitude) ==
    LET degrees == Abs(value) \div 1000
        minutes == FmtMinutes(Abs(value) % 1000)
    IN  IF is_latitude
        THEN FmtD(degrees, 2) \o minutes \o (IF value >= 0 THEN "N" ELSE "S")
        ELSE FmtD(degrees, 3) \o "0" \o minutes \o (IF value >= 0 THEN "E" ELSE "W")

\* degrees = int(abs(value)); f"{degrees:02d}{minutes:05.2f}{direction}" for a
\* latitude, f"{degrees:03d}{minutes:05.2f}{direction}" for a longitude
decimal_to_dmd(value, is_latitude) ==
    LET degrees == Abs(value) \div 1000
        minutes == FmtMinutes(Abs(value) % 1000)
    IN  IF is_latitude
        THEN FmtD(degrees, 2) \o minutes \o (IF value >= 0 THEN "N" ELSE "S")
        ELSE FmtD(degrees, 3) \o minutes \o (IF value >= 0 THEN "E" ELSE "W")

aprs_message(callsign, buoy_data, dmd_lat, dmd_lon) ==
    callsign \o ">APFBUO,TCPIP*:;" \o buoy_data.id \o "*" \o buoy_data.obs_time
    \o "z" \o dmd_lat \o "/" \o dmd_lon
    \o "_" \o buoy_data.wind_direction \o "/" \o buoy_data.wind_speed
    \o "g" \o buoy_data.wind_gust \o "t" \o buoy_data.temperature
    \o "b" \o buoy_data.pressure

login_line(callsign, passcode) ==
    "user " \o callsign \o " pass " \o passcode \o " vers Python-Buoy 1.0"

(***************************************************************************)
(* The run.                                                                *)
(*   pc             where the program is: "fetch", "parse" (the loop of    *)
(*                  get_latest_buoy_data), "main" (the head of the send    *)
(*                  loop), "connect", "login", "packet", "close", "sleep"  *)
(*                  (inside send_to_aprs), "done", "crashed"               *)
(*   exc            the exception that ended the run, "" when none         *)
(*   clock          the wall clock (UTC), whole seconds                    *)
(*   nlines         len(data_lines)                                        *)
(*   idx            index in data_lines of the next line of the loop       *)
(*   line           the line of the latest iteration                       *)
(*   disposition    what that iteration did with it                        *)
(*   buoy_data_list the records retained so far                            *)
(*   origin         for each retained record, the index in data_lines of   *)
(*                  the line it was made from and that line's tokens       *)
(*   k              position in buoy_data_list of the send loop            *)
(*   lat, lon,      the locals lat, lon and aprs_message of the current    *)
(*   message        call of send_to_aprs, "" outside a call                *)
(*   open           connected sockets                                      *)
(*   wire           the lines sent on the current connection               *)
(*   trace          the network and timer events of the run, in order      *)
(* The text of a line is drawn when the loop reaches it; lines 0 and 1 are *)
(* never read.                                                             *)
(***************************************************************************)
VARIABLES pc, exc, clock, nlines, idx, line, disposition, buoy_data_list,
          origin, k, lat, lon, message, open, wire, trace

vars == <<pc, exc, clock, nlines, idx, line, disposition, buoy_data_list,
          origin, k, lat, lon, message, open, wire, trace>>

callVars == <<lat, lon, message>>

parseVars == <<nlines, idx, line, disposition, buoy_data_list, origin, clock>>

Event(ev) == [ev |-> ev, rec |-> k]

Init ==
    /\ pc = "fetch"
    /\ exc = ""
    /\ clock = ClockAtFetch
    /\ nlines = 0
    /\ idx = 0
    /\ line = ""
    /\ disposition = ""
    /\ buoy_data_list = <<>>
    /\ origin = <<>>
    /\ k = 0
    /\ lat = ""
    /\ lon = ""
    /\ message = ""
    /\ open = 0
    /\ wire = <<>>
    /\ trace = <<>>

\* requests.get(url) answers with a status other than 200: return []
FetchFailed ==
    /\ pc = "fetch"
    /\ pc' = "main"
    /\ k' = 1
    /\ UNCHANGED <<exc, parseVars, callVars, open, wire, trace>>

\* requests.get(url) answers 200 with a text of n lines; the loop starts at
\* data_lines[2]
FetchOk(n) ==
    /\ pc = "fetch"
    /\ pc' = "parse"
    /\ nlines' = n
    /\ idx' = 2
    /\ UNCHANGED <<exc, clock, line, disposition, buoy_data_list, origin, k,
                   callVars, open, wire, trace>>

\* one iteration of the loop over data_lines[2:], on the line ln, the clock
\* reading t when datetime.utcnow() is called
ProcessLine(ln, t) ==
    /\ pc = "parse"
    /\ idx < nlines
    /\ clock' = t
    /\ line' = ln
    /\ disposition' = Disposition(ln, t)
    /\ IF disposition' = "raised"
       THEN /\ pc' = "crashed"
            /\ exc' = "ValueError"
            /\ UNCHANGED <<idx, buoy_data_list, origin>>
       ELSE /\ idx' = idx + 1
            /\ UNCHANGED <<pc, exc>>
            /\ IF disposition' = "kept"
               THEN /\ buoy_data_list' = Retain(buoy_data_list, Observation(split(ln)))
                    /\ origin' = Append(origin, [index |-> idx, fields |-> split(ln)])
               ELSE UNCHANGED <<buoy_data_list, origin>>
    /\ UNCHANGED <<nlines, k, callVars, open, wire, trace>>

\* the loop is exhausted: return buoy_data_list
Return ==
    /\ pc = "parse"
    /\ idx >= nlines
    /\ pc' = "main"
    /\ k' = 1
    /\ line' = ""
    /\ disposition' = ""
    /\ UNCHANGED <<exc, clock, nlines, idx, buoy_data_list, origin, callVars,
                   open, wire, trace>>

\* send_to_aprs(CALLSIGN, PASSCODE, buoy_data) is entered: the message is
\* composed before the socket is made
Call ==
    /\ pc = "main"
    /\ k <= Len(buoy_data_list)
    /\ lat' = decimal_to_dmd(buoy_data_list[k].latitude, TRUE)
    /\ lon' = decimal_to_dmd(buoy_data_list[k].longitude, FALSE)
    /\ message' = aprs_message(CALLSIGN, buoy_data_list[k], lat', lon')
    /\ pc' = "connect"
    /\ UNCHANGED <<exc, parseVars, k, open, wire, trace>>

\* socket.socket(...) and s.connect(...)
Connect ==
    /\ pc = "connect"
    /\ open' = open + 1
    /\ wire' = <<>>
    /\ trace' = Append(trace, Event("open"))
    /\ pc' = "login"
    /\ UNCHANGED <<exc, parseVars, k, callVars>>

\* s.sendall(f"user {callsign} pass {passcode} vers Python-Buoy 1.0\n")
SendLogin ==
    /\ pc = "login"
    /\ wire' = Append(wire, login_line(CALLSIGN, PASSCODE) \o "\n")
    /\ trace' = Append(trace, Event("login"))
    /\ pc' = "packet"
    /\ UNCHANGED <<exc, parseVars, k, callVars, open>>

\* s.sendall(f"{aprs_message}\n")
SendPacket ==
    /\ pc = "packet"
    /\ wire' = Append(wire, message \o "\n")
    /\ trace' = Append(trace, Event("packet"))
    /\ pc' = "close"
    /\ UNCHANGED <<exc, parseVars, k, callVars, open>>

\* a socket left connected when the with block is left
CloseLeak ==
    /\ pc = "close"
    /\ trace' = Append(trace, Event("close"))
    /\ pc' = "sleep"
    /\ UNCHANGED <<exc, parseVars, k, callVars, open, wire>>

\* the with block is left: the socket is closed
Close ==
    /\ pc = "close"
    /\ open' = open - 1
    /\ trace' = Append(trace, Event("close"))
    /\ pc' = "sleep"
    /\ UNCHANGED <<exc, parseVars, k, callVars, wire>>

\* time.sleep(1), return, and the next turn of the for loop
Sleep ==
    /\ pc = "sleep"
    /\ trace' = Append(trace, Event("sleep"))
    /\ pc' = "main"
    /\ k' = k + 1
    /\ lat' = ""
    /\ lon' = ""
    /\ message' = ""
    /\ UNCHANGED <<exc, parseVars, open, wire>>

\* a fault that is logged, the loop going on with the next record
FaultSkipped ==
    /\ pc \in {"connect", "login", "packet"}
    /\ open' = 0
    /\ trace' = Append(trace, Event("fault"))
    /\ pc' = "main"
    /\ k' = k + 1
    /\ lat' = ""
    /\ lon' = ""
    /\ message' = ""
    /\ UNCHANGED <<exc, parseVars, wire>>

\* connect or sendall raises OSError: the with block closes the socket and
\* the exception, caught nowhere, ends the program
Fault ==
    /\ pc \in {"connect", "login", "packet"}
    /\ open' = 0
    /\ trace' = Append(trace, Event("fault"))
    /\ pc' = "crashed"
    /\ exc' = "OSError"
    /\ UNCHANGED <<parseVars, k, callVars, wire>>

\* the for loop is exhausted: the program ends
Finish ==
    /\ pc = "main"
    /\ k > Len(buoy_data_list)
    /\ pc' = "done"
    /\ UNCHANGED <<exc, parseVars, k, callVars, open, wire, trace>>

Next ==
    \/ FetchFailed
    \/ \E n \in 0..MaxLines : FetchOk(n)
    \/ \E ln \in FeedRows, t \in clock..(ClockAtFetch + MaxSkew) : ProcessLine(ln, t)
    \/ Return
    \/ Call
    \/ Connect
    \/ SendLogin
    \/ SendPacket
    \/ Close
    \/ Sleep
    \/ Fault
    \/ Finish

Spec == Init /\ [][Next]_vars

(***************************************************************************)
(* Properties.                                                             *)
(***************************************************************************)
Records == 1..Len(buoy_data_list)

\* the tokens of the line the j-th record was made from
Tokens(j) == origin[j].fields

\* the latest iteration read the clock and compared it with a parsed time
Timed == disposition \in {"stale", "raised", "kept"}

\* the age of the latest line's observation when its iteration read the clock
Age == clock - Seconds(ObsTime(split(line)))

\* the latest line was appended as the last record of the list
Appended ==
    /\ Len(origin) > 0
    /\ origin[Len(origin)] = [index |-> idx - 1, fields |-> split(line)]

AllUnknown(r) ==
    /\ r.wind_direction = "..."
    /\ r.wind_speed = "..."
    /\ r.wind_gust = "..."
    /\ r.temperature = "..."
    /\ r.pressure = "....."

\* C1: no record of the list has all five weather fields unknown; a line
\* whose five weather tokens are all "MM" produces no record
C1_NoRecordWithoutWeather ==
    \A j \in Records :
        /\ ~AllUnknown(buoy_data_list[j])
        /\ ~(\A c \in {9, 10, 11, 16, 18} : Tokens(j)[c] = "MM")

\* C2: every record has fields of exact width: id 9, wind_direction,
\* wind_speed, wind_gust and temperature 3, pressure 5, obs_time 6
C2_FixedWidths ==
    \A j \in Records :
        LET r == buoy_data_list[j]
        IN  /\ Len(r.id) = 9
            /\ Len(r.wind_direction) = 3
            /\ Len(r.wind_speed) = 3
            /\ Len(r.wind_gust) = 3
            /\ Len(r.temperature) = 3
            /\ Len(r.pressure) = 5
            /\ Len(r.obs_time) = 6

\* C3: a malformed row is never fatal: no exception escapes
\* get_latest_buoy_data, whatever the tokens of a line
C3_MalformedRowNeverFatal == exc # "ValueError"

\* C4: a row that passes the other gates and whose fields all convert is
\* retained when the clock reads at most 30 minutes past its observation
\* time, and discarded when it reads more (30 minutes and 1 second included)
C4_StalenessBoundary ==
    (Timed /\ ~Raises(split(line))) =>
        /\ Age <= 1800 => (disposition = "kept" /\ Appended)
        /\ Age >= 1801 => (disposition = "stale" /\ ~Appended)

C4_Witness ==
    /\ disposition = "stale"
    /\ Age = 1801
    /\ Len(buoy_data_list) = 1
    /\ buoy_data_list[1].obs_time = "012340"

\* C5 as claimed: a retained row is less than 30 minutes away from the
\* clock, earlier or later
C5_WithinHalfHourEitherWay ==
    disposition = "kept" => (Age < 1800 /\ Age > -1800)

\* C5 as amended: a retained row is at most 30 minutes older than the clock;
\* a row more than 30 minutes older is discarded; a row whose fields all
\* convert and that is not older than the clock, a future timestamp
\* included, is retained
C5_NotOlderThanHalfHour ==
    Timed =>
        /\ disposition = "kept" => Age <= 1800
        /\ Age > 1800 => (disposition = "stale" /\ ~Appended)
        /\ (Age <= 0 /\ ~Raises(split(line))) => (disposition = "kept" /\ Appended)

C5_Witness == disposition = "kept" /\ Appended /\ Age < -1800

InCall == pc \in {"connect", "login", "packet", "close", "sleep"}

\* C7 as claimed: 34.5 as a latitude is rendered "3430.00N" and -122.25 as a
\* longitude is rendered "122015.00W"
C7_PositionAsClaimed ==
    InCall =>
        /\ buoy_data_list[k].latitude = 34500 => lat = "3430.00N"
        /\ buoy_data_list[k].longitude = -122250 => lon = "122015.00W"

\* C7 as amended: 34.5 as a latitude is rendered "3430.00N" and -122.25 as a
\* longitude is rendered "12215.00W"; in general the degrees are
\* floor(|value|) in 2 digits (latitude) or 3 digits (longitude), the
\* minutes (|value| - degrees)*60 in 2 integer digits, a point and 2
\* fractional digits, followed by N/E for value >= 0 and S/W for value < 0
C7_PositionRendering ==
    InCall =>
        LET la   == buoy_data_list[k].latitude
            lo   == buoy_data_list[k].longitude
            Deg(v) == Abs(v) \div 1000
            \* hundredths of a minute in the fraction of a degree
            Hun(v) == ((Abs(v) % 1000) * 60) \div 10
            Min(v) == Chr(Digits, (Hun(v) \div 1000) + 1)
                      \o Chr(Digits, ((Hun(v) \div 100) % 10) + 1) \o "."
                      \o Chr(Digits, ((Hun(v) \div 10) % 10) + 1)
                      \o Chr(Digits, (Hun(v) % 10) + 1)
        IN  /\ la = 34500 => lat = "3430.00N"
            /\ lo = -122250 => lon = "12215.00W"
            /\ Len(lat) = 8 /\ Len(lon) = 9
            /\ lat = FmtD(Deg(la), 2) \o Min(la) \o (IF la >= 0 THEN "N" ELSE "S")
            /\ lon = FmtD(Deg(lo), 3) \o Min(lo) \o (IF lo >= 0 THEN "E" ELSE "W")
            /\ message = aprs_message(CALLSIGN, buoy_data_list[k], lat, lon)

C7_Witness ==
    /\ pc = "packet"
    /\ buoy_data_list[k].latitude = 34500
    /\ buoy_data_list[k].longitude = -122250
    /\ lat = "3430.00N"
    /\ lon = "12215.00W"

\* the events of one relay session, in order
Session == <<"open", "login", "packet", "close", "sleep">>

\* the number of events ev for the record j in the trace
Count(ev, j) == Cardinality({p \in 1..Len(trace) : trace[p] = [ev |-> ev, rec |-> j]})

\* C8: for each record, in list order: one connection is opened, the login
\* line is sent, then the data line, the connection is closed, and 1 second
\* is waited before the next connection; the wait follows every completed
\* send, the last included; exactly two lines go over a connection; never is
\* more than one connection open
C8_SessionOrdering ==
    /\ open \in {0, 1}
    /\ open = 1 <=> pc \in {"login", "packet", "close"}
    /\ \A p \in 1..Len(trace) :
          trace[p].ev # "fault" =>
             trace[p] = [ev |-> Session[((p - 1) % 5) + 1], rec |-> ((p - 1) \div 5) + 1]
    /\ pc = "sleep" =>
          wire = <<login_line(CALLSIGN, PASSCODE) \o "\n",
                   aprs_message(CALLSIGN, buoy_data_list[k], lat, lon) \o "\n">>
    /\ pc = "main" => Len(trace) = 5 * (k - 1) \/ exc # ""
    /\ pc = "done" => Len(trace) = 5 * Len(buoy_data_list)

C8_Witness ==
    /\ pc = "done"
    /\ Len(buoy_data_list) = 2
    /\ Len(trace) = 10
    /\ trace[10] = [ev |-> "sleep", rec |-> 2]

\* C9: a connect or send that fails for the k-th record ends the run: the
\* fault is the last event, nothing is opened or sent for a later record,
\* each earlier record was sent exactly once, and no record is sent twice
C9_FaultAborts ==
    /\ \A j \in Records : Count("open", j) <= 1 /\ Count("packet", j) <= 1
    /\ \A p \in 1..Len(trace) :
          trace[p].ev = "fault" =>
             /\ p = Len(trace)
             /\ pc = "crashed" /\ exc = "OSError"
             /\ trace[p].rec = k
             /\ open = 0
             /\ Count("packet", k) = 0
             /\ \A j \in Records : j < k => Count("packet", j) = 1
             /\ \A j \in Records : j > k => \A q \in 1..Len(trace) : trace[q].rec # j
    /\ exc = "OSError" => (Len(trace) > 0 /\ trace[Len(trace)].ev = "fault")

C9_Witness ==
    /\ exc = "OSError"
    /\ Len(buoy_data_list) = 2
    /\ k = 1
    /\ trace = <<[ev |-> "open", rec |-> 1], [ev |-> "login", rec |-> 1],
                 [ev |-> "fault", rec |-> 1]>>

\* C10: the list is the order-preserving subsequence of the lines after the
\* first two: no record comes from line 0 or 1, a line gives at most one
\* record, and records are in the order of their lines
C10_OrderPreserved ==
    /\ Len(origin) = Len(buoy_data_list)
    /\ \A j \in Records :
          /\ origin[j].index >= 2
          /\ origin[j].index < idx
          /\ buoy_data_list[j] = Observation(Tokens(j))
    /\ \A i, j \in Records : i < j => origin[i].index < origin[j].index

C10_Witness ==
    /\ pc = "main"
    /\ Len(buoy_data_list) = 2
    /\ origin[1].index = 2
    /\ origin[2].index = 3
    /\ buoy_data_list[1] # buoy_data_list[2]

=============================================================================
